---- MODULE Spec2Model ----
(***************************************************************************)
(* A model of the finagent orchestrator: FinancialAgent.process_query and  *)
(* the langgraph workflow it runs (process_subgoal -> review_subgoal ->    *)
(* {retry_subgoal -> review_subgoal | next_subgoal} -> {process_subgoal |  *)
(* synthesize} -> END), with the planner, the router, the reviewer and the *)
(* memory manager it calls.  The text-generation service, the tools and    *)
(* the evaluator are the environment: each call draws its outcome (a reply *)
(* or an exception) from a small set.                                      *)
(***************************************************************************)
EXTENDS Integers, Sequences, FiniteSets, TLC

(* ---------------- program constants ---------------- *)

\* TaskReviewer.__init__(max_retries=3); FinancialAgent builds it with the default
max_retries == 3

\* workflow.invoke(initial_state, {"recursion_limit": 100})
recursion_limit == 100

\* MemoryManager.max_recent_interactions
max_recent_interactions == 5

\* MemoryManager.get_relevant_context: similarity_search(query, k=3)
top_k == 3

(* ---------------- bounds of the model ---------------- *)

\* longest plan explored with dependencies
MaxSubgoals == 2

\* longest plan explored against every reply of the services
MaxDetailedSubgoals == 1

\* add_to_memory calls made of a MemoryManager on its own.
MaxMessages == 7

\* Embedding calls (index initialization or update) that fail among them.
MaxEmbedFailures == 1

\* Largest retries count of a subgoal should_retry is evaluated on by itself.
MaxRetriesSeen == 4

\* length of the one long plan, explored against a reviewer that never accepts
LongPlanLen == 12

(* ---------------- values ---------------- *)

\* a dict key that is not there
Absent == "<absent>"

\* Python's None
None == "<None>"

\* str(order_number) for the order numbers a plan can hold
OrderStr(n) ==
    <<"1", "2", "3", "4", "5", "6", "7", "8", "9", "10",
      "11", "12", "13", "14", "15", "16">>[n]

\* the registry of FinancialAgent._initialize_tools
ToolNames == {"web_search", "calculator", "code_executor", "document_summarizer"}

\* str.lower() on the tool names the routing service is given to answer with
Lower(s) ==
    CASE s = "Web_Search" -> "web_search"
      [] s = "Code_Executor" -> "code_executor"
      [] OTHER -> s

(* ---------------- result envelopes ---------------- *)

\* subgoal["result"] = None, as the planner leaves it
NoResult == [type |-> None, keys |-> {}, error |-> ""]

\* {"type": "text", "query": ..., "result": ...}
TextEnvelope == [type |-> "text", keys |-> {"type", "query", "result"}, error |-> ""]

\* code_executor: {"type": "text", "result": ..., "display": ..., "query": ...}
CodeTextEnvelope ==
    [type |-> "text", keys |-> {"type", "result", "display", "query"}, error |-> ""]

\* code_executor: {"type": "plot", "data", "result", "display", "query"}
PlotEnvelope ==
    [type |-> "plot", keys |-> {"type", "data", "result", "display", "query"}, error |-> ""]

\* code_executor's own handler: {"type": "error", "error": str(e)}
CodeErrorEnvelope == [type |-> "error", keys |-> {"type", "error"}, error |-> "code execution"]

\* calculator's own handler: {"type": "error", "error": ..., "query": ...}
CalcErrorEnvelope ==
    [type |-> "error", keys |-> {"type", "error", "query"}, error |-> "Calculation failed"]

\* document_summarizer's own handler: {"error": "Document summarization failed: ..."}
DocErrorEnvelope ==
    [type |-> Absent, keys |-> {"error"}, error |-> "Document summarization failed"]

\* ToolRouter.execute_tool's handler: {"error": "Tool execution failed: ..."}
ToolFailedEnvelope ==
    [type |-> Absent, keys |-> {"error"}, error |-> "Tool execution failed"]

\* process_subgoal's handler: {"error": str(e)}
ExceptionEnvelope == [type |-> Absent, keys |-> {"error"}, error |-> "exception"]

(* ---------------- the tools (the environment of execute_tool) ---------------- *)

\* document_summarizer given an empty query: {"error": "No relevant document found."}
NoDocumentEnvelope == [type |-> Absent, keys |-> {"error"}, error |-> "No relevant document found."]

\* One call of a tool: it returns an envelope or raises.
Returns(envelope) == [raised |-> FALSE, result |-> envelope]

Raises == [raised |-> TRUE, result |-> NoResult]

\* What tool.run(query) / tool._run(query, is_url) can do.  web_search raises
\* RuntimeError on failure; calculator, code_executor and document_summarizer
\* catch their own exceptions and return an error envelope; tool.run itself can
\* still raise (input validation).
ToolRuns(tool, query, is_url) ==
    CASE tool = "web_search" -> {Returns(TextEnvelope), Raises}
      [] tool = "calculator" -> {Returns(TextEnvelope), Returns(CalcErrorEnvelope), Raises}
      [] tool = "code_executor" ->
            {Returns(CodeTextEnvelope), Returns(PlotEnvelope),
             Returns(CodeErrorEnvelope), Raises}
      [] tool = "document_summarizer" ->
            IF query = None THEN {Returns(NoDocumentEnvelope)}
            ELSE {Returns(TextEnvelope), Returns(DocErrorEnvelope)}

\* ToolRouter.execute_tool: the tool's envelope, or the error envelope its
\* handler builds from the exception; it never raises past the tool call.
execute_tool(run) ==
    IF run.raised THEN Returns(ToolFailedEnvelope) ELSE Returns(run.result)

(* ---------------- ToolRouter.route ---------------- *)

\* A reply of the routing service: an exception, an empty reply, or a decision.
RouterReply(kind, selected_tool, is_url) ==
    [kind |-> kind, selected_tool |-> selected_tool, is_url |-> is_url]

\* No call of route in the step just taken.
NotRouted == RouterReply("unasked", "", FALSE)

\* route(subgoal): either raises, or returns (tools.get(name), query, is_url).
\* An empty reply falls through to model_validate, which raises; an empty tool
\* name looks the tool object itself up in the registry, which raises as well.
Route(reply) ==
    IF reply.kind # "decision" \/ Lower(reply.selected_tool) = ""
    THEN [raised |-> TRUE, tool |-> None, query |-> Absent, is_url |-> FALSE]
    ELSE [raised |-> FALSE,
          tool |-> IF Lower(reply.selected_tool) \in ToolNames
                   THEN Lower(reply.selected_tool) ELSE None,
          query |-> "routed",
          is_url |-> reply.is_url]

(* ---------------- TaskPlanner.plan ---------------- *)

\* One GoalSchema record as the planning service returns it.
Goal(n, deps, deps_null) ==
    [order_number |-> n, depends_on |-> deps, depends_on_null |-> deps_null]

\* The life-cycle fields plan() adds: retries, completed, result.  The keys it
\* does not set (tool, query, feedback) are Absent; skipped, retry and is_url are
\* only ever read through .get(key, False), so an absent key reads as FALSE.
NewSubgoal(g) ==
    [order_number |-> g.order_number,
     depends_on |-> g.depends_on,
     depends_on_null |-> g.depends_on_null,
     retries |-> 0,
     completed |-> FALSE,
     result |-> NoResult,
     tool |-> Absent,
     query |-> Absent,
     skipped |-> FALSE,
     feedback |-> Absent,
     retry |-> FALSE,
     is_url |-> FALSE]

\* plan swallowing its exception and returning an empty plan instead.
PlanSwallowing(reply) ==
    CASE reply.kind \in {"raise", "text"} ->
            [kind |-> "tuple", sentinel |-> FALSE, subgoals |-> <<>>]
      [] reply.kind \in {"null", "empty_string", "null_string"} ->
            [kind |-> "str", sentinel |-> FALSE, subgoals |-> <<>>]
      [] reply.kind = "list" ->
            [kind |-> "tuple",
             sentinel |-> FALSE,
             subgoals |-> [i \in 1..Len(reply.goals) |-> NewSubgoal(reply.goals[i])]]

\* plan(query, context).  kind: "raise" (the chain or the loop over a string
\* raised), "str" (the bare error message returned for the no-plan sentinel),
\* "tuple" ((subgoals, explanation)); sentinel: whether the subgoals of the
\* tuple are None, "" or "null".
Plan(reply) ==
    CASE reply.kind = "raise" -> [kind |-> "raise", sentinel |-> FALSE, subgoals |-> <<>>]
      [] reply.kind \in {"null", "empty_string", "null_string"} ->
            [kind |-> "str", sentinel |-> FALSE, subgoals |-> <<>>]
      [] reply.kind = "text" -> [kind |-> "raise", sentinel |-> FALSE, subgoals |-> <<>>]
      [] reply.kind = "list" ->
            [kind |-> "tuple",
             sentinel |-> FALSE,   \* the sentinel check has returned before
             subgoals |-> [i \in 1..Len(reply.goals) |-> NewSubgoal(reply.goals[i])]]

(* ---------------- TaskReviewer.should_retry ---------------- *)

\* 'error' in feedback
MentionsError(feedback) == feedback = "error fetching the page"

\* should_retry testing the retry count before the URL policy.
should_retry_counting_first(sg) ==
    IF sg.skipped THEN "continue"
    ELSE IF ~sg.completed
         THEN IF sg.retries < max_retries THEN "retry"
              ELSE "continue"
         ELSE "continue"

\* should_retry following the reviewer's retry field.
should_retry_as_reviewed(sg) ==
    IF sg.skipped THEN "continue"
    ELSE IF sg.retry /\ sg.retries < max_retries THEN "retry"
    ELSE "continue"

\* The conditional edge after review_subgoal.  The feedback is looked at only
\* when is_url holds (`and` evaluates its right side only then); 'error' not in
\* None raises TypeError, which the handler turns into "continue".
should_retry(sg) ==
    IF sg.skipped THEN "continue"
    ELSE IF ~sg.completed
         THEN IF sg.is_url /\ sg.feedback \in {Absent, None} THEN "continue"
              ELSE IF sg.is_url /\ ~MentionsError(sg.feedback) THEN "continue"
              ELSE IF sg.retries < max_retries THEN "retry"
              ELSE "continue"
         ELSE "continue"

\* should_continue comparing one position too early: the last subgoal is left out.
should_continue_one_early(index, subgoals) ==
    IF index + 1 >= Len(subgoals) THEN "synthesize" ELSE "process_subgoal"

\* should_continue comparing with > instead of >=: one more round past the end.
should_continue_one_late(index, subgoals) ==
    IF index > Len(subgoals) THEN "synthesize" ELSE "process_subgoal"

\* FinancialAgent.should_continue: the conditional edge after next_subgoal.
should_continue(index, subgoals) ==
    IF index >= Len(subgoals) THEN "synthesize" ELSE "process_subgoal"

(* ---------------- FinancialAgent._check_dependencies ---------------- *)

\* _check_dependencies without the test of the prerequisite's completed flag.
check_dependencies_ignoring_completion(subgoals, index) ==
    IF index > 0 /\ subgoals[index + 1].depends_on_null THEN "raise" ELSE "ok"

\* The outcome of the loop over subgoals[:current_subgoal_index]: "raise" when
\* depends_on is None (the `in` test raises), "skip" when a previous subgoal
\* named in depends_on is not completed, "ok" otherwise.  index is 0-based as
\* in the code; subgoals is 1-based.
check_dependencies(subgoals, index) ==
    LET cur == subgoals[index + 1]
        previous == 1..index
    IN  IF previous = {} THEN "ok"
        ELSE IF cur.depends_on_null THEN "raise"
        ELSE IF \E j \in previous :
                    /\ OrderStr(subgoals[j].order_number) \in cur.depends_on
                    /\ ~subgoals[j].completed
             THEN "skip"
             ELSE "ok"

(* ---------------- MemoryManager ---------------- *)

\* The state after MemoryManager.__init__.
EmptyMemory ==
    [chat_history |-> <<>>,
     recent_context |-> <<>>,
     summary |-> 0,
     vector_store |-> [exists |-> FALSE, texts |-> <<>>],
     message_count |-> 0]

\* get_chat_history: AIMessage -> "assistant", anything else -> "human".
get_chat_history(m) ==
    [i \in 1..Len(m.chat_history) |->
        [role |-> IF m.chat_history[i].class = "AIMessage" THEN "assistant" ELSE "human",
         content |-> m.chat_history[i].content]]

\* _summarize_context losing the summary when the summarizer raises.
summarize_context_resetting(m, summarizer_ok) ==
    IF m.recent_context = <<>> THEN m
    ELSE IF summarizer_ok THEN [m EXCEPT !.summary = m.summary + 1]
    ELSE [m EXCEPT !.summary = 0]

\* _summarize_context: the summary is replaced when the summarizer answers and
\* kept when it raises.  A summary text is modelled by its generation number
\* (0 is the empty string).
summarize_context(m, summarizer_ok) ==
    IF m.recent_context = <<>> THEN m
    ELSE IF summarizer_ok THEN [m EXCEPT !.summary = m.summary + 1]
    ELSE m

\* _initialize_vector_store, called when vector_store is None.
initialize_vector_store(m, embed_ok) ==
    IF ~embed_ok THEN m
    ELSE IF get_chat_history(m) = <<>>
         THEN [m EXCEPT !.vector_store =
                            [exists |-> TRUE,
                             texts |-> << [role |-> Absent, content |-> "initial_empty_text"] >>]]
         ELSE [m EXCEPT !.vector_store = [exists |-> TRUE, texts |-> get_chat_history(m)],
                        !.message_count = Len(get_chat_history(m))]

\* _update_vector_store(role, content)
update_vector_store(m, role, content, embed_ok) ==
    IF ~m.vector_store.exists THEN initialize_vector_store(m, embed_ok)
    ELSE IF ~embed_ok THEN m
    ELSE [m EXCEPT !.vector_store.texts = Append(@, [role |-> role, content |-> content]),
                   !.message_count = @ + 1]

\* add_to_memory evicting the newest entry of the window instead of the oldest.
add_to_memory_evicting_newest(m, role, content, summarizer_ok, embed_ok) ==
    LET logged == [m EXCEPT
            !.chat_history = Append(@,
                [class |-> IF role = "assistant" THEN "AIMessage" ELSE "HumanMessage",
                 content |-> content]),
            !.recent_context = Append(@, [role |-> role, content |-> content])]
        windowed ==
            IF Len(logged.recent_context) > max_recent_interactions
            THEN [summarize_context(logged, summarizer_ok) EXCEPT
                        !.recent_context = SubSeq(@, 1, Len(@) - 1)]
            ELSE logged
    IN  update_vector_store(windowed, role, content, embed_ok)

\* add_to_memory evicting as soon as the window reaches its bound.
add_to_memory_evicting_early(m, role, content, summarizer_ok, embed_ok) ==
    LET logged == [m EXCEPT
            !.chat_history = Append(@,
                [class |-> IF role = "assistant" THEN "AIMessage" ELSE "HumanMessage",
                 content |-> content]),
            !.recent_context = Append(@, [role |-> role, content |-> content])]
        windowed ==
            IF Len(logged.recent_context) >= max_recent_interactions
            THEN [summarize_context(logged, summarizer_ok) EXCEPT
                        !.recent_context = Tail(@)]
            ELSE logged
    IN  update_vector_store(windowed, role, content, embed_ok)

\* add_to_memory(role, content)
add_to_memory(m, role, content, summarizer_ok, embed_ok) ==
    LET logged == [m EXCEPT
            !.chat_history = Append(@,
                [class |-> IF role = "assistant" THEN "AIMessage" ELSE "HumanMessage",
                 content |-> content]),
            !.recent_context = Append(@, [role |-> role, content |-> content])]
        windowed ==
            IF Len(logged.recent_context) > max_recent_interactions
            THEN [summarize_context(logged, summarizer_ok) EXCEPT
                        !.recent_context = Tail(@)]
            ELSE logged
    IN  update_vector_store(windowed, role, content, embed_ok)

(* ---------------- MemoryManager.get_relevant_context ---------------- *)

\* The entry that carries the running summary.
SummaryEntry == [role |-> "system", content |-> "Previous conversation summary"]

\* The message a found document is turned into: the role of its metadata and
\* its text without the "<role>: " prefix.
MessageOf(doc) == [role |-> doc.role, content |-> doc.content]

\* The loop over search_results: a message is appended unless the list holds
\* an equal one already.
RECURSIVE AddSearchResults(_, _)
AddSearchResults(relevant_messages, docs) ==
    IF docs = <<>> THEN relevant_messages
    ELSE LET message == MessageOf(Head(docs)) IN
         AddSearchResults(
            IF \E n \in 1..Len(relevant_messages) : relevant_messages[n] = message
            THEN relevant_messages
            ELSE Append(relevant_messages, message),
            Tail(docs))

\* get_relevant_context appending every found message.
get_relevant_context_keeping_hits(m, search_results, search_ok) ==
    LET relevant_messages ==
            (IF m.summary # 0 THEN <<SummaryEntry>> ELSE <<>>) \o m.recent_context
    IN  IF ~m.vector_store.exists THEN relevant_messages
        ELSE IF ~search_ok \/ \E n \in 1..Len(search_results) :
                                    search_results[n].role = Absent
        THEN m.recent_context
        ELSE relevant_messages \o [n \in 1..Len(search_results) |->
                                        MessageOf(search_results[n])]

\* get_relevant_context(query), given what similarity_search returns for the
\* query (search_results) or that it raises (~search_ok).  The text without
\* metadata that an index built on an empty log holds has no "<role>: "
\* prefix: split(": ", 1)[1] raises on it.  Any exception yields the window.
get_relevant_context(m, search_results, search_ok) ==
    LET relevant_messages ==
            (IF m.summary # 0 THEN <<SummaryEntry>> ELSE <<>>) \o m.recent_context
    IN  IF ~m.vector_store.exists THEN relevant_messages
        ELSE IF ~search_ok \/ \E n \in 1..Len(search_results) :
                                    search_results[n].role = Absent
        THEN m.recent_context
        ELSE AddSearchResults(relevant_messages, search_results)

\* What similarity_search(query, k = 3) can return: the top_k documents of the
\* index (all of them when it holds fewer), in the order of their ranking.
SearchResults(m) ==
    LET texts == m.vector_store.texts
        n == IF Len(texts) < top_k THEN Len(texts) ELSE top_k
        rankings == {p \in [1..n -> 1..Len(texts)] :
                        \A a, b \in 1..n : a # b => p[a] # p[b]}
    IN  {[a \in 1..n |-> texts[p[a]]] : p \in rankings}

(* ---------------- the replies of the external services ---------------- *)

\* A plan none of whose goals names a prerequisite.
Independent(goals) ==
    \A i \in 1..Len(goals) : goals[i].depends_on = {} /\ ~goals[i].depends_on_null

\* How much of the services' behaviour a run is explored against, by its plan:
\* "all" replies for the shortest plans without dependencies, the "core" replies
\* (one tool, which returns its text, the verdicts that decide the edges, no
\* evaluator or embedding failure) for the plans with dependencies up to
\* MaxSubgoals goals, the core replies with a tool that can also fail ("tools")
\* for the plans without dependencies up to MaxSubgoals goals, and one
\* "stubborn" behaviour for the long plan (every call answers, the tool returns
\* text, the reviewer never accepts).
Detail(goals) ==
    IF Len(goals) <= MaxDetailedSubgoals /\ Independent(goals) THEN "all"
    ELSE IF Len(goals) <= MaxSubgoals /\ Independent(goals) THEN "tools"
    ELSE IF Len(goals) <= MaxSubgoals THEN "core"
    ELSE "stubborn"

\* The order numbers a depends_on list is drawn from.
DependsNames == {OrderStr(1), OrderStr(2)}

\* depends_on of one goal: any list of these order numbers (the goal's own and
\* later ones included), or null.
DependsChoices == {<<d, FALSE>> : d \in SUBSET DependsNames} \cup {<<{}, TRUE>>}

\* The order numbers of a plan of n goals by position: ascending, as the planner
\* is asked to give them, or descending (the service decides what it returns).
Orders(n) == {[i \in 1..n |-> i], [i \in 1..n |-> n + 1 - i]}

\* The plans of n goals.
PlansOfLength(n) ==
    {[i \in 1..n |-> Goal(o[i], c[i][1], c[i][2])] :
        o \in Orders(n), c \in [1..n -> DependsChoices]}

\* The long plan: LongPlanLen goals without dependencies.
LongPlan == [i \in 1..LongPlanLen |-> Goal(i, {}, FALSE)]

\* The replies of the planning service.
PlannerReplies ==
    {[kind |-> k, goals |-> <<>>] :
        k \in {"raise", "null", "empty_string", "null_string", "text"}}
    \cup {[kind |-> "list", goals |-> g] :
            g \in (UNION {PlansOfLength(n) : n \in 0..MaxSubgoals}) \cup {LongPlan}}

\* The replies of the routing service.
RouterReplies(detail) ==
    CASE detail = "stubborn" -> {RouterReply("decision", "Web_Search", FALSE)}
      [] detail \in {"core", "tools"} ->
            {RouterReply("raise", "", FALSE),
             RouterReply("decision", "Web_Search", FALSE)}
      [] detail = "all" ->
            {RouterReply("raise", "", FALSE),
             RouterReply("none", "", FALSE),
             RouterReply("decision", "", FALSE),
             RouterReply("decision", "stock_api", FALSE),
             RouterReply("decision", "Web_Search", FALSE),
             RouterReply("decision", "code_executor", TRUE)}

\* One TaskReviewerSchema reply (raised: the chain raised instead).
Verdict(completed, retry, is_url, feedback, query) ==
    [raised |-> FALSE, completed |-> completed, retry |-> retry, is_url |-> is_url,
     feedback |-> feedback, query |-> query]

ReviewerRaises == [Verdict(FALSE, FALSE, FALSE, "", None) EXCEPT !.raised = TRUE]

\* The replies of the review service.
ReviewerReplies(detail) ==
    CASE detail = "stubborn" ->
            {Verdict(FALSE, TRUE, FALSE, "error fetching the page", "revised")}
      [] detail \in {"core", "tools"} ->
            {ReviewerRaises,
             Verdict(TRUE, FALSE, FALSE, "looks complete", "revised"),
             Verdict(FALSE, TRUE, FALSE, "error fetching the page", "revised"),
             Verdict(FALSE, FALSE, TRUE, "not relevant", None)}
      [] detail = "all" ->
            {ReviewerRaises}
            \cup {Verdict(TRUE, r, FALSE, "looks complete", "revised") : r \in BOOLEAN}
            \cup {Verdict(FALSE, r, FALSE, "error fetching the page", "revised") : r \in BOOLEAN}
            \cup {Verdict(FALSE, TRUE, FALSE, "not relevant", "revised"),
                  Verdict(FALSE, TRUE, TRUE, "not relevant", None),
                  Verdict(FALSE, TRUE, TRUE, "error fetching the page", None)}

\* What one call of the tool does.
ToolReplies(detail, tool, query, is_url) ==
    IF detail \in {"all", "tools"} THEN ToolRuns(tool, query, is_url)
    ELSE {Returns(TextEnvelope)}

\* Whether a call of evaluator.evaluate / of the embedding service returns (TRUE)
\* or raises (FALSE).
CallOutcomes(detail) == IF detail = "all" THEN BOOLEAN ELSE {TRUE}

\* The replies of the synthesis call: an exception, or the text of the answer.
SynthesisReplies(detail) ==
    IF detail = "stubborn" THEN {"answer"}
    ELSE {"raise", "answer", "answer that mentions an error"}

\* "error" in str(content).lower()
ContentMentionsError(content) ==
    content \in {"answer that mentions an error", "Error synthesizing response"}

(* ---------------- state ---------------- *)

VARIABLES
    pc,                     \* where process_query / the workflow stands
    subgoals,               \* AgentState.subgoals
    current_subgoal_index,  \* AgentState.current_subgoal_index
    final_response,         \* AgentState.final_response
    memory,                 \* the MemoryManager of the agent
    retval,                 \* what process_query returned
    steps,                  \* node executions of this workflow.invoke
    hist                    \* history: the calls made and the transitions taken

vars == <<pc, subgoals, current_subgoal_index, final_response, memory, retval, steps, hist>>

Nodes == {"process_subgoal", "review_subgoal", "retry_subgoal", "next_subgoal", "synthesize"}

\* AgentState.final_response = ""
NoResponse == [type |-> "str", content |-> "", display |-> None]

NoReturn == [kind |-> "none", content |-> "", display |-> None]

Returned(kind, content, display) == [kind |-> kind, content |-> content, display |-> display]

EmptyHistory ==
    [plan |-> "none",       \* the kind of the planner's reply
     route |-> <<>>,        \* per subgoal: calls of route
     tool |-> <<>>,         \* per subgoal: calls of execute_tool
     first_raised |-> FALSE, \* the tool raised in the process_subgoal step just taken
     router_reply |-> NotRouted, \* the routing service's reply in the process_subgoal step just taken
     synth_failed |-> FALSE, \* an exception occurred inside synthesize_response
     review |-> <<>>,       \* per subgoal: calls of the review service
     synth |-> 0,           \* calls of the synthesis service in synthesize
     direct |-> 0,          \* calls of the synthesis service in process_query
     next |-> 0,            \* next_subgoal transitions
     retry |-> <<>>,        \* per subgoal: retry_subgoal transitions
     synth_results |-> {},  \* the subgoals whose result went into the synthesis call
     abort |-> "none",      \* the exception that left workflow.invoke
     reviewer_raised |-> FALSE, \* a call of the review service raised
     last |-> "none"]       \* the last step taken

Init ==
    /\ pc = "idle"
    /\ subgoals = <<>>
    /\ current_subgoal_index = 0
    /\ final_response = NoResponse
    /\ memory = EmptyMemory
    /\ retval = NoReturn
    /\ steps = 0
    /\ hist = EmptyHistory

\* subgoals[current_subgoal_index] (the code's index is 0-based)
Current == subgoals[current_subgoal_index + 1]

(* ---------------- FinancialAgent.process_query, up to workflow.invoke ---------------- *)

\* process_query returns: the workflow state of the call is dropped with it.
Return(kind, content, display, mem, h) ==
    /\ pc' = "returned"
    /\ retval' = Returned(kind, content, display)
    /\ memory' = mem
    /\ hist' = h
    /\ UNCHANGED <<subgoals, current_subgoal_index, final_response, steps>>

\* process_query without the branch for the empty list.
AnswerDirectlyNever(sgs) == FALSE

\* Line 368: an empty list of subgoals is answered without the workflow.
AnswerDirectly(sgs) == sgs = <<>>

\* Lines 339-394: validation, the human message, planning, the sentinel and
\* empty-list branches, the initial AgentState.
ProcessQuery ==
    /\ pc = "idle"
    /\ \E query_ok \in BOOLEAN, reply \in PlannerReplies :
        \* The embedding call for the query is explored failing on the paths that
        \* return without the workflow; in the workflow the embedding calls of
        \* synthesize and of the final add_to_memory are.
        LET detail == IF reply.kind = "list" THEN Detail(reply.goals) ELSE "all"
            recording == IF reply.kind = "list" /\ reply.goals # <<>> THEN "core" ELSE "all"
        IN
        \E embed1 \in CallOutcomes(recording), embed2 \in CallOutcomes(detail),
           eval_ok \in CallOutcomes(detail), answer \in SynthesisReplies(detail) :
            LET asked == add_to_memory(memory, "human", "query", TRUE, embed1)
                planned == Plan(reply)
                h == [hist EXCEPT !.plan = IF reply.kind = "list" /\ reply.goals = <<>>
                                             THEN "empty_list" ELSE reply.kind,
                                  !.last = "process_query"]
            IN  IF ~query_ok
                THEN \* ValueError, caught by the outer handler
                     Return("unexpected_error", "", None, memory, [hist EXCEPT !.last = "process_query"])
                ELSE IF planned.kind = "raise"
                THEN Return("planning_error", "", None, asked, h)
                ELSE IF planned.kind = "str"
                THEN \* `subgoals, explanation = <message>` cannot unpack the string
                     Return("planning_error", "", None, asked, h)
                ELSE IF ~eval_ok
                THEN Return("planning_error", "", None, asked, h)
                ELSE IF planned.sentinel
                THEN Return("decompose_message", "", None, asked, h)
                ELSE IF AnswerDirectly(planned.subgoals)
                THEN IF answer = "raise"
                     THEN Return("planning_error", "", None, asked, [h EXCEPT !.direct = @ + 1])
                     ELSE Return("direct_answer", answer, None,
                                 add_to_memory(asked, "assistant", answer, TRUE, embed2),
                                 [h EXCEPT !.direct = @ + 1])
                ELSE /\ pc' = "process_subgoal"
                     /\ subgoals' = planned.subgoals
                     /\ current_subgoal_index' = 0
                     /\ final_response' = NoResponse
                     /\ steps' = 0
                     /\ memory' = asked
                     /\ hist' = [h EXCEPT
                            !.route = [i \in 1..Len(planned.subgoals) |-> 0],
                            !.tool = [i \in 1..Len(planned.subgoals) |-> 0],
                            !.retry = [i \in 1..Len(planned.subgoals) |-> 0],
                            !.review = [i \in 1..Len(planned.subgoals) |-> 0]]
                     /\ UNCHANGED retval

(* ---------------- the workflow ---------------- *)

\* workflow.invoke without a step budget.
CanStepUnbounded(node) == pc = node

\* A node runs only while the step budget of workflow.invoke lasts.
CanStep(node) == pc = node /\ steps < recursion_limit

\* An exception leaves workflow.invoke: process_query's handler (lines 427-431)
\* returns its message; nothing is added to memory.
Abort(cause, sgs, h) ==
    /\ pc' = "returned"
    /\ retval' = Returned("workflow_error", "", None)
    /\ subgoals' = sgs
    /\ hist' = [h EXCEPT !.abort = cause]
    /\ UNCHANGED <<current_subgoal_index, final_response, memory, steps>>

\* A dependency skip that also records an error result.
SkippedWithError(sg) == [sg EXCEPT !.skipped = TRUE, !.result = ExceptionEnvelope]

\* Line 118 of _check_dependencies: current_subgoal['skipped'] = True.
Skipped(sg) == [sg EXCEPT !.skipped = TRUE]

\* The exception handler of process_subgoal (lines 162-168).
ProcessFailed(sg) == [sg EXCEPT !.result = ExceptionEnvelope, !.completed = FALSE]

\* process_subgoal, then the edge to review_subgoal.
ProcessSubgoal ==
    /\ CanStep("process_subgoal")
    /\ LET detail == Detail(subgoals)
           i == current_subgoal_index + 1
           deps == check_dependencies(subgoals, current_subgoal_index)
           h == [hist EXCEPT !.last = "process_subgoal", !.router_reply = NotRouted]
           Finish(sg, hh) ==
                /\ subgoals' = [subgoals EXCEPT ![i] = sg]
                /\ hist' = hh
       IN  IF current_subgoal_index >= Len(subgoals)
           THEN \* subgoals[index]: IndexError, in the body and again in the handler
                Abort("index_error", subgoals, h)
           ELSE
           /\ \/ /\ deps = "skip"
                 /\ Finish(Skipped(Current), h)
              \/ /\ deps = "raise"
                 /\ Finish(ProcessFailed(Current), h)
              \/ /\ deps = "ok"
                 /\ \E reply \in RouterReplies(detail) :
                      LET routed == Route(reply)
                          hr == [h EXCEPT !.route[i] = @ + 1, !.router_reply = reply]
                      IN  IF routed.raised \/ routed.tool = None
                          THEN \* route raised, or tool.name of None raised
                               Finish(ProcessFailed(Current), hr)
                          ELSE LET sg == [Current EXCEPT !.tool = routed.tool,
                                                         !.query = routed.query]
                               IN  \E run \in ToolReplies(detail, routed.tool,
                                                           routed.query, routed.is_url),
                                      eval_ok \in CallOutcomes(detail) :
                                        LET executed == execute_tool(run)
                                            he == [hr EXCEPT !.tool[i] = @ + 1,
                                                             !.first_raised = run.raised]
                                        IN  IF ~executed.raised /\ eval_ok
                                            THEN Finish([sg EXCEPT !.completed = TRUE,
                                                                   !.result = executed.result],
                                                        he)
                                            ELSE Finish(ProcessFailed(sg), he)
           /\ pc' = "review_subgoal"
           /\ steps' = steps + 1
           /\ UNCHANGED <<current_subgoal_index, final_response, memory, retval>>

\* An edge after review_subgoal that never leads to retry_subgoal.
AfterReviewMovingOn(sg) == "next_subgoal"

\* The edge after review_subgoal.
AfterReview(sg) == IF should_retry(sg) = "retry" THEN "retry_subgoal" ELSE "next_subgoal"

\* review without the test of the skipped flag.
ReviewSkipsNever(sg) == FALSE

\* Line 34: review leaves a subgoal marked skipped as it is.
ReviewSkips(sg) == sg.skipped

\* TaskReviewer.review (the review_subgoal node), then should_retry.
ReviewSubgoal ==
    /\ CanStep("review_subgoal")
    /\ LET detail == Detail(subgoals)
           i == current_subgoal_index + 1
           h == [hist EXCEPT !.last = "review_subgoal", !.first_raised = FALSE,
                             !.router_reply = NotRouted]
       IN  IF ReviewSkips(Current)
           THEN /\ pc' = AfterReview(Current)
                /\ steps' = steps + 1
                /\ hist' = h
                /\ UNCHANGED <<subgoals, current_subgoal_index, final_response, memory, retval>>
           ELSE \E reply \in ReviewerReplies(detail) :
                  LET hr == [h EXCEPT !.review[i] = @ + 1]
                      judged == [Current EXCEPT !.completed = reply.completed,
                                                !.feedback = reply.feedback,
                                                !.retry = reply.retry]
                      reviewed == [judged EXCEPT !.query = reply.query,
                                                 !.is_url = reply.is_url]
                  IN  IF reply.raised
                      THEN \* the chain raised: the handler (lines 62-64) logs
                           \* the exception and raises it again
                           Abort("reviewer_raised", subgoals,
                                 [hr EXCEPT !.reviewer_raised = TRUE])
                      ELSE IF Current.query = Absent
                      THEN \* response.get('query', subgoal['query']): KeyError
                           Abort("missing_query", [subgoals EXCEPT ![i] = judged], hr)
                      ELSE /\ subgoals' = [subgoals EXCEPT ![i] = reviewed]
                           /\ pc' = AfterReview(reviewed)
                           /\ steps' = steps + 1
                           /\ hist' = hr
                           /\ UNCHANGED <<current_subgoal_index, final_response, memory, retval>>

\* retry_subgoal without the give-up test: should_retry alone ends the retries.
RetriesExhaustedNever(retries) == FALSE

\* The give-up test with > instead of >=: one more attempt is made.
RetriesExhaustedLate(retries) == retries > max_retries

\* Whether retry_subgoal gives the subgoal up after the increment (line 179).
RetriesExhausted(retries) == retries >= max_retries

\* Giving up without marking the subgoal skipped.
GiveUpWithoutSkipping(sg) == [sg EXCEPT !.completed = FALSE]

\* Lines 180-181: the subgoal is given up.
GiveUp(sg) == [sg EXCEPT !.completed = FALSE, !.skipped = TRUE]

\* A retry that routes the subgoal again.
RetriedRerouted(sg, result) ==
    [sg EXCEPT !.result = result, !.tool = "web_search", !.query = "routed"]

\* Lines 195-196 of retry_subgoal: the new result is stored.
Retried(sg, result) == [sg EXCEPT !.result = result]

\* retry_subgoal, then the edge to review_subgoal.
RetrySubgoal ==
    /\ CanStep("retry_subgoal")
    /\ LET detail == Detail(subgoals)
           i == current_subgoal_index + 1
           h == [hist EXCEPT !.last = "retry_subgoal", !.retry[i] = @ + 1]
           counted == [Current EXCEPT !.retries = @ + 1]
           Continue(sg, hh) ==
                /\ subgoals' = [subgoals EXCEPT ![i] = sg]
                /\ hist' = hh
                /\ pc' = "review_subgoal"
                /\ steps' = steps + 1
                /\ UNCHANGED <<current_subgoal_index, final_response, memory, retval>>
       IN  IF RetriesExhausted(counted.retries)
           THEN Continue(GiveUp(counted), h)
           ELSE IF counted.tool = Absent
           THEN \* self.tool_router.tools[current_subgoal["tool"]]: KeyError
                Abort("missing_tool", [subgoals EXCEPT ![i] = counted], h)
           ELSE \E run \in ToolReplies(detail, counted.tool, counted.query, counted.is_url),
                   eval_ok \in CallOutcomes(detail) :
                     LET executed == execute_tool(run) IN
                     IF ~executed.raised /\ eval_ok
                     THEN Continue(Retried(counted, executed.result),
                                   [h EXCEPT !.tool[i] = @ + 1])
                     ELSE \* the exception leaves the node: nothing catches it here
                          Abort("retry_raised", [subgoals EXCEPT ![i] = counted],
                                [h EXCEPT !.tool[i] = @ + 1])

\* next_subgoal, then should_continue.
NextSubgoal ==
    /\ CanStep("next_subgoal")
    /\ current_subgoal_index' = current_subgoal_index + 1
    /\ pc' = should_continue(current_subgoal_index + 1, subgoals)
    /\ steps' = steps + 1
    /\ hist' = [hist EXCEPT !.last = "next_subgoal", !.next = @ + 1]
    /\ UNCHANGED <<subgoals, final_response, memory, retval>>

\* Collecting only the completed subgoals whose result has a "result" field.
UsefulResultsWithText(sgs) ==
    {i \in 1..Len(sgs) : sgs[i].completed /\ "result" \in sgs[i].result.keys}

\* Collecting every subgoal that has a result, completed or not.
UsefulResultsOfAll(sgs) == {i \in 1..Len(sgs) : sgs[i].result # NoResult}

\* The subgoals synthesize_response collects: completed, with a result.
UsefulResults(sgs) == {i \in 1..Len(sgs) : sgs[i].completed /\ sgs[i].result # NoResult}

\* A collected result that goes to the visualizations.
IsVisualization(result) == result.type = "plot" /\ "display" \in result.keys

\* Lines 277-286: the handler's final_response, the string
\* f"Error synthesizing response: {str(e)}".
SynthesisError == [type |-> "str", content |-> "Error synthesizing response", display |-> None]

\* synthesize_response (the synthesize node), then END.
Synthesize ==
    /\ CanStep("synthesize")
    /\ LET detail == Detail(subgoals)
           useful == UsefulResults(subgoals)
           text == {i \in useful : ~IsVisualization(subgoals[i].result)}
           plots == {i \in useful : IsVisualization(subgoals[i].result)}
           h == [hist EXCEPT !.last = "synthesize"]
           Failed(hh) ==
                /\ final_response' = SynthesisError
                /\ memory' = memory
                /\ hist' = [hh EXCEPT !.synth_failed = TRUE]
       IN  /\ IF \E i \in text : "result" \notin subgoals[i].result.keys
              THEN \* result["result"]: KeyError
                   Failed(h)
              ELSE \E answer \in SynthesisReplies(detail), eval_ok \in CallOutcomes(detail),
                      embed_ok \in CallOutcomes(detail) :
                        LET hs == [h EXCEPT !.synth = @ + 1, !.synth_results = text] IN
                        IF answer = "raise" \/ ~eval_ok
                        THEN Failed(hs)
                        ELSE /\ final_response' =
                                  [type |-> "dict", content |-> answer,
                                   display |-> IF plots # {} THEN "plots" ELSE None]
                             /\ memory' = add_to_memory(memory, "assistant", answer, TRUE, embed_ok)
                             /\ hist' = hs
           /\ pc' = "END"
           /\ steps' = steps + 1
           /\ UNCHANGED <<subgoals, current_subgoal_index, retval>>

\* The step budget ran out before END: GraphRecursionError leaves workflow.invoke.
RecursionLimitReached ==
    /\ pc \in Nodes
    /\ steps >= recursion_limit
    /\ Abort("recursion_limit", subgoals, [hist EXCEPT !.last = "recursion_limit"])

(* ---------------- process_query after workflow.invoke ---------------- *)

\* Line 401: an empty response, or a dict whose content mentions an error.
Problematic(response) ==
    \/ response.content = "" /\ response.type = "str"
    \/ response.type = "dict" /\ ContentMentionsError(response.content)

\* process_query returning the response without recording it.
FinishQueryWithoutRecording ==
    /\ pc = "END"
    /\ LET h == [hist EXCEPT !.last = "finish_query"] IN
        IF Problematic(final_response)
        THEN Return("problematic_response", final_response.content, None, memory, h)
        ELSE Return("response", final_response.content, final_response.display, memory, h)

\* Lines 399-425.
FinishQuery ==
    /\ pc = "END"
    /\ \E embed_ok \in CallOutcomes(Detail(subgoals)) :
        LET h == [hist EXCEPT !.last = "finish_query"] IN
        IF Problematic(final_response)
        THEN \* the note is appended; nothing is added to memory
             Return("problematic_response", final_response.content, None, memory, h)
        ELSE \* a string is wrapped ({'content': ..., 'display': None}) first
             Return("response", final_response.content, final_response.display,
                    add_to_memory(memory, "assistant", final_response.content, TRUE, embed_ok), h)

Next ==
    \/ ProcessQuery
    \/ ProcessSubgoal
    \/ ReviewSubgoal
    \/ RetrySubgoal
    \/ NextSubgoal
    \/ Synthesize
    \/ RecursionLimitReached
    \/ FinishQuery

Spec == Init /\ [][Next]_vars

\* The behaviours of the workflow when every enabled step is eventually taken:
\* workflow.invoke runs node after node until END or an exception, and
\* process_query runs to its return (every call of a service returns or raises).
FairSpec == Init /\ [][Next]_vars /\ WF_vars(Next)

(* ---------------- the MemoryManager on its own ---------------- *)

\* The messages recorded: role and content as process_query and
\* synthesize_response pass them.
MemMessages == {[role |-> "human", content |-> "query"],
                [role |-> "assistant", content |-> "answer"]}

\* The calls made of the memory so far: the last one, the outcome of its
\* summarizer call, and the embedding failures so far.
MemHistory(last, summarizer_ok, failures) ==
    [last |-> last, summarizer_ok |-> summarizer_ok, embed_failures |-> failures]

\* Whether the summarizer answers (TRUE) or raises (FALSE) in the next
\* add_to_memory call; it is called only when the window overflows.
SummarizerOutcomes(m) ==
    IF Len(m.recent_context) < max_recent_interactions THEN {TRUE} ELSE BOOLEAN

\* A MemoryManager after __init__; steps counts the add_to_memory calls.
MemInit ==
    /\ pc = "memory"
    /\ subgoals = <<>>
    /\ current_subgoal_index = 0
    /\ final_response = NoResponse
    /\ memory = EmptyMemory
    /\ retval = <<>>
    /\ steps = 0
    /\ hist = MemHistory("init", TRUE, 0)

\* One call add_to_memory(role, content).
AddToMemory ==
    /\ pc = "memory"
    /\ steps < MaxMessages
    /\ \E msg \in MemMessages, summarizer_ok \in SummarizerOutcomes(memory),
          embed_ok \in BOOLEAN :
            /\ ~embed_ok => hist.embed_failures < MaxEmbedFailures
            /\ memory' = add_to_memory(memory, msg.role, msg.content, summarizer_ok, embed_ok)
            /\ hist' = MemHistory("add_to_memory", summarizer_ok,
                                  hist.embed_failures + (IF embed_ok THEN 0 ELSE 1))
    /\ steps' = steps + 1
    /\ retval' = <<>>
    /\ UNCHANGED <<pc, subgoals, current_subgoal_index, final_response>>

\* One call get_relevant_context(query); retval is the list returned.
GetRelevantContext ==
    /\ pc = "memory"
    /\ \E search_results \in SearchResults(memory), search_ok \in BOOLEAN :
            retval' = get_relevant_context(memory, search_results, search_ok)
    /\ hist' = [hist EXCEPT !.last = "get_relevant_context"]
    /\ UNCHANGED <<pc, subgoals, current_subgoal_index, final_response, memory, steps>>

MemNext ==
    \/ AddToMemory
    \/ GetRelevantContext

\* Any sequence of add_to_memory and get_relevant_context calls.
MemSpec == MemInit /\ [][MemNext]_vars

(* ---------------- TaskReviewer.should_retry on its own ---------------- *)

\* The feedback a subgoal can hold: none yet, or a text of the reviewer.
Feedbacks == {Absent, None, "", "looks complete", "error fetching the page", "not relevant"}

\* The subgoals should_retry is evaluated on.
ReviewedSubgoals ==
    {[NewSubgoal(Goal(1, {}, FALSE)) EXCEPT
            !.skipped = skipped, !.completed = completed, !.is_url = is_url,
            !.retry = retry, !.feedback = feedback, !.retries = retries] :
        skipped \in BOOLEAN, completed \in BOOLEAN, is_url \in BOOLEAN,
        retry \in BOOLEAN, feedback \in Feedbacks, retries \in 0..MaxRetriesSeen}

\* A state with one subgoal, before should_retry(state).
RetryInit ==
    /\ pc = "should_retry"
    /\ subgoals \in {<<sg>> : sg \in ReviewedSubgoals}
    /\ current_subgoal_index = 0
    /\ final_response = NoResponse
    /\ memory = EmptyMemory
    /\ retval = "none"
    /\ steps = 0
    /\ hist = [last |-> "init"]

\* should_retry(state); retval is the string returned.
ShouldRetry ==
    /\ pc = "should_retry"
    /\ retval' = should_retry(Current)
    /\ pc' = "decided"
    /\ hist' = [last |-> "should_retry"]
    /\ UNCHANGED <<subgoals, current_subgoal_index, final_response, memory, steps>>

RetryNext == ShouldRetry

\* One evaluation of should_retry on any subgoal.
RetrySpec == RetryInit /\ [][RetryNext]_vars

(* ---------------- the claims ---------------- *)

\* C1: in every reachable state every subgoal has retries <= max_retries, and a
\* subgoal whose retries equals max_retries has completed = false and
\* skipped = true.
C1_RetriesBounded ==
    \A i \in 1..Len(subgoals) :
        /\ subgoals[i].retries <= max_retries
        /\ subgoals[i].retries = max_retries =>
                ~subgoals[i].completed /\ subgoals[i].skipped

\* A subgoal has just been retried for the max_retries-th time.
C1_Witness ==
    /\ hist.last = "retry_subgoal"
    /\ pc = "review_subgoal"
    /\ Current.retries = max_retries

\* C2 as stated: when process_subgoal has handled a subgoal whose depends_on
\* names a subgoal of the plan, at any position, that was not completed at that
\* moment (the subgoal itself never is), the subgoal is skipped and neither
\* route nor execute_tool was invoked for it.
C2_AnyPosition ==
    (pc = "review_subgoal" /\ hist.last = "process_subgoal") =>
        LET i == current_subgoal_index + 1 IN
        (\E j \in 1..Len(subgoals) :
            /\ OrderStr(subgoals[j].order_number) \in subgoals[i].depends_on
            /\ (j = i \/ ~subgoals[j].completed))
        => /\ subgoals[i].skipped
           /\ hist.route[i] = 0
           /\ hist.tool[i] = 0

\* C2 amended: when process_subgoal handles a subgoal whose depends_on names a
\* subgoal at an earlier position of the list that is not completed, the
\* subgoal is marked skipped without a call of route or execute_tool, and none
\* is ever made for it; a prerequisite at the subgoal's own or a later position
\* is not looked at: with no incomplete prerequisite before it the subgoal is
\* routed.
C2_EarlierPosition ==
    /\ [](\A i \in 1..Len(subgoals) :
            (subgoals[i].skipped /\ subgoals[i].retries = 0) =>
                hist.route[i] = 0 /\ hist.tool[i] = 0)
    /\ [][(pc = "process_subgoal" /\ hist'.last = "process_subgoal"
             /\ current_subgoal_index < Len(subgoals)) =>
            LET i == current_subgoal_index + 1
                blocked == \E j \in 1..(i - 1) :
                    /\ OrderStr(subgoals[j].order_number) \in subgoals[i].depends_on
                    /\ ~subgoals[j].completed
            IN  IF blocked
                THEN /\ subgoals'[i] = [subgoals[i] EXCEPT !.skipped = TRUE]
                     /\ hist'.route[i] = 0
                     /\ hist'.tool[i] = 0
                ELSE /\ ~subgoals'[i].skipped
                     /\ (i = 1 \/ ~subgoals[i].depends_on_null) => hist'.route[i] = 1]_vars

\* process_subgoal has just skipped the second subgoal of a plan because the
\* first one, which it names in depends_on, is not completed.
C2_Witness ==
    /\ pc = "review_subgoal"
    /\ hist.last = "process_subgoal"
    /\ current_subgoal_index = 1
    /\ Current.skipped
    /\ OrderStr(subgoals[1].order_number) \in Current.depends_on
    /\ ~subgoals[1].completed
    /\ hist.route[2] = 0

\* C3 as stated: every run of the workflow on a non-empty list reaches
\* synthesize, whatever the tools return and the reviewer judges (a run that a
\* raising service call, or a subgoal the router gave no tool, ended is not
\* counted), after exactly Len(subgoals) next_subgoal transitions and, for each
\* subgoal, as many retry_subgoal transitions as its retries counter says, at
\* most max_retries.
C3_AlwaysSynthesizes ==
    /\ [](pc = "synthesize" =>
            /\ hist.next = Len(subgoals)
            /\ \A i \in 1..Len(subgoals) :
                    hist.retry[i] = subgoals[i].retries /\ hist.retry[i] <= max_retries)
    /\ (pc = "process_subgoal" /\ steps = 0)
         ~> (pc = "synthesize"
             \/ hist.abort \in {"reviewer_raised", "missing_query", "missing_tool",
                                "retry_raised", "index_error"})

\* C3 amended: every run of the workflow on a non-empty list either reaches
\* synthesize or is ended by an exception that leaves workflow.invoke (one of
\* them the recursion limit of 100 steps, which a long enough plan retried to
\* exhaustion exceeds); synthesize is reached after exactly Len(subgoals)
\* next_subgoal transitions and, for each subgoal, as many retry_subgoal
\* transitions as its retries counter says, at most max_retries; the recursion
\* limit ends a run only when its 100 steps are used up, which a plan of fewer
\* than (recursion_limit - 1) / (2 * max_retries + 3) subgoals never does.
C3_SynthesizesOrAborts ==
    /\ [](pc = "synthesize" =>
            /\ hist.next = Len(subgoals)
            /\ \A i \in 1..Len(subgoals) :
                    hist.retry[i] = subgoals[i].retries /\ hist.retry[i] <= max_retries)
    /\ [](hist.abort = "recursion_limit" =>
            /\ steps = recursion_limit
            /\ Len(subgoals) * (2 * max_retries + 3) + 1 >= recursion_limit)
    /\ [](steps <= (hist.next + 1) * (2 * max_retries + 3) + 1)
    /\ (pc = "process_subgoal" /\ steps = 0)
         ~> (pc = "synthesize" \/ hist.abort # "none")

\* synthesize is reached on a plan of two subgoals, the first of them retried
\* until it was given up.
C3_Witness ==
    /\ pc = "synthesize"
    /\ Len(subgoals) = 2
    /\ hist.next = 2
    /\ hist.retry[1] = max_retries
    /\ subgoals[1].retries = max_retries

\* C4: 0 <= current_subgoal_index <= Len(subgoals) in every reachable state;
\* process_subgoal, review_subgoal and retry_subgoal only run with the index
\* below Len(subgoals) and synthesize only with the index equal to it; the
\* index is changed by next_subgoal only, which adds exactly 1 each time.
C4_IndexInRange ==
    /\ [](/\ 0 <= current_subgoal_index
          /\ current_subgoal_index <= Len(subgoals)
          /\ pc \in {"process_subgoal", "review_subgoal", "retry_subgoal"} =>
                current_subgoal_index < Len(subgoals)
          /\ pc = "synthesize" => current_subgoal_index = Len(subgoals))
    /\ [][/\ current_subgoal_index' # current_subgoal_index =>
                pc = "next_subgoal" /\ hist'.last = "next_subgoal"
          /\ hist'.next # hist.next =>
                /\ hist'.next = hist.next + 1
                /\ current_subgoal_index' = current_subgoal_index + 1]_vars

\* synthesize is entered after the index walked over a plan of two subgoals.
C4_Witness ==
    /\ pc = "synthesize"
    /\ hist.last = "next_subgoal"
    /\ Len(subgoals) = 2
    /\ current_subgoal_index = 2

\* C5: the max_retries-th retry_subgoal of a subgoal makes retries equal to
\* max_retries, sets completed = false and skipped = true and calls no tool, so
\* the tool is executed at most max_retries times for one subgoal; the review
\* that follows leaves the subgoal as it is and the workflow takes the
\* 'continue' edge to next_subgoal.
C5_GiveUpAtBound ==
    /\ [](\A i \in 1..Len(subgoals) : hist.tool[i] <= max_retries)
    /\ [][LET i == current_subgoal_index + 1 IN
          /\ (pc = "retry_subgoal" /\ hist'.last = "retry_subgoal"
                /\ subgoals[i].retries = max_retries - 1) =>
                /\ subgoals'[i].retries = max_retries
                /\ ~subgoals'[i].completed
                /\ subgoals'[i].skipped
                /\ hist'.tool = hist.tool
                /\ pc' = "review_subgoal"
          /\ (pc = "review_subgoal" /\ hist'.last = "review_subgoal"
                /\ subgoals[i].retries = max_retries) =>
                /\ subgoals' = subgoals
                /\ hist'.review = hist.review
                /\ pc' = "next_subgoal"]_vars

\* A subgoal was given up at its max_retries-th retry, after max_retries
\* executions of its tool, and the workflow moved on to next_subgoal.
C5_Witness ==
    /\ pc = "next_subgoal"
    /\ hist.last = "review_subgoal"
    /\ Current.retries = max_retries
    /\ Current.skipped
    /\ hist.tool[current_subgoal_index + 1] = max_retries

\* C6: when the tool raised in the first execution of a subgoal, then at the
\* end of process_subgoal the subgoal's result is an error envelope, completed
\* is false and the subgoal is not skipped.
C6_ToolFailureIncomplete ==
    (pc = "review_subgoal" /\ hist.last = "process_subgoal"
        /\ hist.first_raised) =>
        /\ "error" \in Current.result.keys
        /\ ~Current.completed
        /\ ~Current.skipped

\* C7: a subgoal whose routing failed (route was called and left no tool) is
\* reviewed and retried like any other incomplete subgoal: no exception raised
\* while handling it ends the run.
C7_RoutingFailureContained ==
    \A i \in 1..Len(subgoals) :
        (hist.route[i] > 0 /\ subgoals[i].tool = Absent) =>
            /\ "error" \in subgoals[i].result.keys
            /\ hist.abort \notin {"missing_query", "missing_tool"}

\* C8: a call of the review service that raises does not end the run.
C8_ReviewerFailureContained ==
    hist.reviewer_raised => hist.abort # "reviewer_raised" /\ retval.kind # "workflow_error"

\* C9: when the planning service returns the no-plan sentinel (null, "" or
\* "null"), process_query returns the 'could not break down your query'
\* message, not the planning-error message, with no subgoal created, no
\* workflow step and no call of the router, a tool, the reviewer or the
\* synthesis service.
C9_SentinelMessage ==
    hist.plan \in {"null", "empty_string", "null_string"} =>
        /\ pc = "returned"
        /\ retval.kind = "decompose_message"
        /\ subgoals = <<>>
        /\ steps = 0
        /\ hist.route = <<>> /\ hist.tool = <<>> /\ hist.review = <<>>
        /\ hist.synth = 0 /\ hist.direct = 0

C11_PlanningFailure ==
    hist.plan \in {"raise", "text"} =>
        /\ pc = "returned"
        /\ retval.kind = "planning_error"
        /\ subgoals = <<>>
        /\ current_subgoal_index = 0
        /\ final_response = NoResponse
        /\ steps = 0
        /\ hist.route = <<>> /\ hist.tool = <<>> /\ hist.review = <<>>
        /\ hist.synth = 0 /\ hist.direct = 0
        /\ memory.chat_history = << [class |-> "HumanMessage", content |-> "query"] >>
        /\ memory.recent_context = << [role |-> "human", content |-> "query"] >>

\* process_query returned after the planning service raised.
C11_Witness ==
    /\ pc = "returned"
    /\ hist.plan = "raise"
    /\ retval.kind = "planning_error"
    /\ Len(memory.chat_history) = 1

\* C12 as stated: the results handed to the synthesis service are exactly
\* those of the subgoals with completed = true.
C12_ExactlyCompleted ==
    (hist.last = "synthesize" /\ hist.synth = 1) =>
        hist.synth_results = {i \in 1..Len(subgoals) : subgoals[i].completed}

\* C12 amended: synthesize never ends the run with an exception, whatever
\* subgoals are skipped or incomplete; when it calls the synthesis service, the
\* results it hands over are exactly those of the completed subgoals whose
\* result is not a plot with a display fragment (those go to display), none of
\* them of a skipped or incomplete subgoal; it makes no call when a completed
\* subgoal's non-plot result has no "result" key.
C12_CompletedTextResults ==
    [][(pc = "synthesize" /\ hist'.last = "synthesize") =>
        LET done == {i \in 1..Len(subgoals) : subgoals[i].completed}
            textual == {i \in done :
                            ~(subgoals[i].result.type = "plot"
                              /\ "display" \in subgoals[i].result.keys)}
        IN  /\ pc' = "END"
            /\ hist'.abort = "none"
            /\ subgoals' = subgoals
            /\ \A i \in hist'.synth_results :
                    subgoals[i].completed /\ ~subgoals[i].skipped
            /\ hist'.synth = 1 => hist'.synth_results = textual
            /\ hist'.synth = 0 =>
                    /\ hist'.synth_results = {}
                    /\ \E i \in textual : "result" \notin subgoals[i].result.keys]_vars

\* The synthesis service was called with the result of the second subgoal only:
\* the first one, given up after max_retries retries, still holds a result.
C12_Witness ==
    /\ hist.last = "synthesize"
    /\ hist.synth = 1
    /\ Len(subgoals) = 2
    /\ subgoals[1].skipped /\ subgoals[1].retries = max_retries
    /\ subgoals[1].result # NoResult
    /\ subgoals[2].completed
    /\ hist.synth_results = {2}

\* C13: after an exception inside synthesize the workflow has reached END
\* without propagating it, and final_response is the envelope
\* {content: "Error synthesizing response: <message>", display: absent}.
C13_SynthesisFailureEnvelope ==
    hist.synth_failed =>
        /\ hist.abort = "none"
        /\ pc \in {"END", "returned"}
        /\ final_response = [type |-> "dict",
                             content |-> "Error synthesizing response",
                             display |-> None]

\* C14: one run of the workflow takes at most recursion_limit = 100 steps; a
\* run that has used them up before END is ended there: process_query returns
\* the workflow-error string, no final response was produced and no assistant
\* message is recorded.
C14_RecursionLimit ==
    /\ [](steps <= recursion_limit)
    /\ [](hist.abort = "recursion_limit" =>
            /\ pc = "returned"
            /\ retval.kind = "workflow_error"
            /\ final_response = NoResponse
            /\ hist.synth = 0
            /\ \A k \in 1..Len(memory.chat_history) :
                    memory.chat_history[k].class # "AIMessage")
    /\ [][(pc \in Nodes /\ steps = recursion_limit) =>
            hist'.abort = "recursion_limit"]_vars

\* A plan too long for the step budget was ended by the recursion limit.
C14_Witness ==
    /\ hist.abort = "recursion_limit"
    /\ pc = "returned"
    /\ steps = recursion_limit
    /\ current_subgoal_index < Len(subgoals)

\* C18: when the routing service returns no decision, or names a tool that is
\* not registered, route returns the web_search tool with the subgoal's text
\* as query and is_url = false: it neither raises nor returns a missing tool,
\* so process_subgoal goes on to run web_search.
C18_DefaultsToWebSearch ==
    LET reply == hist.router_reply
        i == current_subgoal_index + 1
    IN  (/\ hist.last = "process_subgoal"
         /\ \/ reply.kind = "none"
            \/ reply.kind = "decision" /\ Lower(reply.selected_tool) \notin ToolNames) =>
            /\ ~Route(reply).raised
            /\ Route(reply).tool = "web_search"
            /\ ~Route(reply).is_url
            /\ subgoals[i].tool = "web_search"
            /\ hist.tool[i] = hist.route[i]

\* C19: in every reachable state no subgoal has completed = true and
\* skipped = true together, whether it was skipped for an incomplete
\* prerequisite or given up after its retries.
C19_CompletedExcludesSkipped ==
    \A i \in 1..Len(subgoals) : ~(subgoals[i].completed /\ subgoals[i].skipped)

\* The reviewer has just passed over a subgoal that was completed by
\* process_subgoal, then rejected, retried and given up.
C19_Witness ==
    /\ hist.last = "review_subgoal"
    /\ current_subgoal_index < Len(subgoals)
    /\ Current.skipped
    /\ ~Current.completed
    /\ Current.retries = max_retries
    /\ Current.result # NoResult
    /\ hist.review[current_subgoal_index + 1] = max_retries

\* C20: when process_subgoal skips a subgoal because a subgoal at an earlier
\* position that it names in depends_on is not completed, skipped is the only
\* field of the subgoal that changes (result stays null, tool and query unset,
\* completed false, retries 0) and nothing else of the state changes; no call
\* of the router, a tool or the review service is ever made for it; the
\* review_subgoal step that follows leaves the state as it is and leads to
\* next_subgoal, whose step increments current_subgoal_index and nothing else.
C20_DependencySkipFrame ==
    /\ [](\A i \in 1..Len(subgoals) :
            (subgoals[i].skipped /\ subgoals[i].retries = 0) =>
                /\ subgoals[i].result = NoResult
                /\ subgoals[i].tool = Absent
                /\ subgoals[i].query = Absent
                /\ subgoals[i].feedback = Absent
                /\ ~subgoals[i].completed
                /\ hist.route[i] = 0 /\ hist.tool[i] = 0 /\ hist.review[i] = 0)
    /\ [][(/\ pc = "process_subgoal" /\ hist'.last = "process_subgoal"
           /\ current_subgoal_index < Len(subgoals)
           /\ \E j \in 1..current_subgoal_index :
                /\ OrderStr(subgoals[j].order_number)
                        \in subgoals[current_subgoal_index + 1].depends_on
                /\ ~subgoals[j].completed) =>
            /\ subgoals' = [subgoals EXCEPT ![current_subgoal_index + 1].skipped = TRUE]
            /\ pc' = "review_subgoal"
            /\ hist'.route = hist.route /\ hist'.tool = hist.tool
            /\ hist'.review = hist.review
            /\ UNCHANGED <<current_subgoal_index, final_response, memory, retval>>]_vars
    /\ [][(/\ pc = "review_subgoal" /\ hist'.last = "review_subgoal"
           /\ Current.skipped /\ Current.retries = 0) =>
            /\ pc' = "next_subgoal"
            /\ hist'.review = hist.review /\ hist'.tool = hist.tool
            /\ UNCHANGED <<subgoals, current_subgoal_index, final_response,
                           memory, retval>>]_vars
    /\ [][(/\ pc = "next_subgoal" /\ hist'.last = "next_subgoal"
           /\ Current.skipped /\ Current.retries = 0) =>
            /\ current_subgoal_index' = current_subgoal_index + 1
            /\ UNCHANGED <<subgoals, final_response, memory, retval>>]_vars

\* next_subgoal has just moved past the second subgoal, skipped because the
\* first one was left incomplete: it holds no result, tool or query.
C20_Witness ==
    /\ hist.last = "next_subgoal"
    /\ current_subgoal_index = 2
    /\ subgoals[2].skipped /\ subgoals[2].retries = 0
    /\ subgoals[2].result = NoResult
    /\ ~subgoals[1].completed
    /\ hist.review[2] = 0

\* C15: after any sequence of add_to_memory calls recent_context holds at most
\* max_recent_interactions = 5 entries; a call made with five entries in the
\* window asks for the summary once (it is replaced by one new generation when
\* the summarizer answers, kept when it raises) and then evicts exactly the
\* oldest entry; a call made with fewer appends the message and changes neither
\* the summary nor the older entries.
C15_WindowBounded ==
    /\ [](Len(memory.recent_context) <= max_recent_interactions)
    /\ [][steps' = steps + 1 =>
            LET before == memory.recent_context
                after == memory'.recent_context
                entry == after[Len(after)]
            IN  /\ after # <<>>
                /\ entry \in MemMessages
                /\ IF Len(before) = max_recent_interactions
                   THEN /\ after = Append(Tail(before), entry)
                        /\ memory'.summary =
                                memory.summary + (IF hist'.summarizer_ok THEN 1 ELSE 0)
                   ELSE /\ after = Append(before, entry)
                        /\ memory'.summary = memory.summary]_vars

\* The sixth add_to_memory call: the window holds the last five messages and
\* the first summary was made.
C15_Witness ==
    /\ hist.last = "add_to_memory"
    /\ Len(memory.chat_history) = max_recent_interactions + 1
    /\ Len(memory.recent_context) = max_recent_interactions
    /\ memory.summary = 1
    /\ memory.recent_context =
            SubSeq(get_chat_history(memory), 2, max_recent_interactions + 1)

\* C16: after any sequence of add_to_memory calls, embedding failures
\* included, every message of the log is in the similarity index exactly once
\* and message_count equals the length of the log.
C16_IndexedExactlyOnce ==
    /\ \A msg \in MemMessages :
            Cardinality({n \in 1..Len(memory.chat_history) :
                            get_chat_history(memory)[n] = msg})
          = Cardinality({n \in 1..Len(memory.vector_store.texts) :
                            memory.vector_store.texts[n] = msg})
    /\ memory.message_count = Len(memory.chat_history)

\* C17 as stated: the list get_relevant_context returns has no two equal
\* entries.
C17_NoEqualEntries ==
    hist.last = "get_relevant_context" =>
        \A a, b \in 1..Len(retval) : a # b => retval[a] # retval[b]

\* C17 amended: the list get_relevant_context returns starts with the summary
\* entry (when it is included) and the window as it is, equal window entries
\* included; every entry after them, which comes from the similarity search,
\* is equal to no other entry of the list: a found message already present as
\* the summary entry, a window entry or an earlier search hit is not added.
C17_SearchHitsNotRepeated ==
    hist.last = "get_relevant_context" =>
        \E base \in {memory.recent_context, <<SummaryEntry>> \o memory.recent_context} :
            /\ Len(retval) >= Len(base)
            /\ SubSeq(retval, 1, Len(base)) = base
            /\ memory.summary = 0 => base = memory.recent_context
            /\ \A a \in (Len(base) + 1)..Len(retval) :
                    /\ \A b \in 1..Len(retval) : b # a => retval[b] # retval[a]
                    /\ \E n \in 1..Len(memory.vector_store.texts) :
                            retval[a] = MessageOf(memory.vector_store.texts[n])

\* get_relevant_context returned the summary entry, a window of five equal
\* messages and, from the search, the one older message that is not in the
\* window.
C17_Witness ==
    /\ hist.last = "get_relevant_context"
    /\ Len(memory.recent_context) = max_recent_interactions
    /\ \A n \in 1..Len(memory.recent_context) :
            memory.recent_context[n] = memory.recent_context[1]
    /\ Len(retval) = max_recent_interactions + 2
    /\ retval[1] = SummaryEntry
    /\ retval[Len(retval)] # memory.recent_context[1]
    /\ retval[Len(retval)] \in MemMessages

\* C21: should_retry returns, for every subgoal, "continue" if it is skipped;
\* else "continue" if evaluating the conditions raises (not completed, is_url
\* and no feedback to search); else "continue" if it is not completed, is_url
\* holds and the feedback does not mention an error, whatever the retries; else
\* "retry" if it is not completed and retries < max_retries; else "continue"
\* (not completed with retries >= max_retries, or completed).  It changes
\* nothing of the state.
C21_ShouldRetryTable ==
    [][pc = "should_retry" =>
        LET sg == Current
            raises == ~sg.completed /\ sg.is_url /\ sg.feedback \in {Absent, None}
        IN  /\ pc' = "decided"
            /\ UNCHANGED <<subgoals, current_subgoal_index, final_response, memory>>
            /\ retval' =
                CASE sg.skipped -> "continue"
                  [] ~sg.skipped /\ raises -> "continue"
                  [] ~sg.skipped /\ ~raises /\ ~sg.completed /\ sg.is_url
                        /\ ~MentionsError(sg.feedback) -> "continue"
                  [] ~sg.skipped /\ ~sg.completed
                        /\ ~(sg.is_url /\ ~MentionsError(sg.feedback))
                        /\ sg.retries < max_retries -> "retry"
                  [] OTHER -> "continue"]_vars

\* should_retry answered "continue" for a subgoal that is not completed, with
\* is_url and a feedback that mentions no error, although retries are left.
C21_Witness ==
    /\ pc = "decided"
    /\ retval = "continue"
    /\ ~Current.skipped /\ ~Current.completed
    /\ Current.is_url /\ Current.feedback = "not relevant"
    /\ Current.retries < max_retries

\* C22: in every reachable state a subgoal has completed = true only after the
\* reviewer returned a verdict for it: completed is never true for a subgoal
\* that has not been reviewed.
C22_CompletedOnlyAfterReview ==
    \A i \in 1..Len(subgoals) :
        subgoals[i].completed =>
            /\ hist.review[i] >= 1
            /\ subgoals[i].feedback # Absent

\* C23: subgoals are settled in list order.  current_subgoal_index never
\* decreases; when process_subgoal is about to start on the subgoal at index k,
\* every subgoal before it was skipped or reviewed and has no retry pending;
\* and no step changes a subgoal at an index below current_subgoal_index, nor
\* makes another call of the router, a tool or the reviewer for it.
C23_SettledInOrder ==
    /\ [](pc = "process_subgoal" =>
            \A j \in 1..current_subgoal_index :
                /\ j <= Len(subgoals)
                /\ subgoals[j].skipped \/ hist.review[j] >= 1
                /\ subgoals[j].completed \/ subgoals[j].skipped
                        \/ should_retry(subgoals[j]) = "continue")
    /\ [][/\ current_subgoal_index' >= current_subgoal_index
          /\ \A j \in 1..current_subgoal_index :
                j <= Len(subgoals) =>
                    /\ Len(subgoals') = Len(subgoals)
                    /\ subgoals'[j] = subgoals[j]
                    /\ hist'.route[j] = hist.route[j]
                    /\ hist'.tool[j] = hist.tool[j]
                    /\ hist'.review[j] = hist.review[j]
                    /\ hist'.retry[j] = hist.retry[j]]_vars

\* process_subgoal is about to start on the second subgoal after the first
\* one was rejected, retried and then accepted.
C23_Witness ==
    /\ pc = "process_subgoal"
    /\ current_subgoal_index = 1
    /\ Len(subgoals) = 2
    /\ subgoals[1].completed
    /\ subgoals[1].retries >= 1
    /\ hist.review[1] = subgoals[1].retries + 1

\* C24: a subgoal's tool is written by process_subgoal only, its query by
\* process_subgoal or review_subgoal only: retry_subgoal, next_subgoal and
\* synthesize (and the return of process_query) leave both as they are, so a
\* retry runs the tool chosen by the first routing on the query the latest
\* review left.
C24_ToolAndQueryWriters ==
    [][\A i \in 1..Len(subgoals) :
        /\ Len(subgoals') = Len(subgoals)
        /\ subgoals'[i].tool # subgoals[i].tool =>
                /\ pc = "process_subgoal"
                /\ i = current_subgoal_index + 1
                /\ hist'.route[i] = hist.route[i] + 1
        /\ subgoals'[i].query # subgoals[i].query =>
                /\ i = current_subgoal_index + 1
                /\ \/ pc = "process_subgoal" /\ hist'.route[i] = hist.route[i] + 1
                   \/ pc = "review_subgoal" /\ hist'.review[i] = hist.review[i] + 1]_vars

\* retry_subgoal has just run the tool again: the subgoal still has the tool
\* of its routing (one call of route) and the query of the review.
C24_Witness ==
    /\ hist.last = "retry_subgoal"
    /\ pc = "review_subgoal"
    /\ current_subgoal_index < Len(subgoals)
    /\ Current.retries = 1
    /\ hist.route[current_subgoal_index + 1] = 1
    /\ hist.tool[current_subgoal_index + 1] = 2
    /\ Current.tool = "code_executor"
    /\ Current.query = "revised"

\* C25: when the summarizer raises during an add_to_memory call that overflows
\* the window, the call still returns: the summary keeps its value, the oldest
\* window entry is evicted, the message is appended to the log and handed to
\* the index (which holds it unless the embedding call fails as well).
C25_SummarizerFailsSoft ==
    [][(/\ steps' = steps + 1
        /\ Len(memory.recent_context) = max_recent_interactions
        /\ ~hist'.summarizer_ok) =>
            LET entry == memory'.recent_context[max_recent_interactions]
                texts == memory.vector_store.texts
            IN  /\ pc' = "memory"
                /\ memory'.summary = memory.summary
                /\ memory'.recent_context = Append(Tail(memory.recent_context), entry)
                /\ get_chat_history(memory') = Append(get_chat_history(memory), entry)
                /\ IF hist'.embed_failures = hist.embed_failures
                   THEN /\ memory'.vector_store.exists
                        /\ memory'.vector_store.texts # <<>>
                        /\ memory'.vector_store.texts[Len(memory'.vector_store.texts)] = entry
                        /\ memory.vector_store.exists =>
                                /\ memory'.vector_store.texts = Append(texts, entry)
                                /\ memory'.message_count = memory.message_count + 1
                   ELSE /\ memory'.vector_store = memory.vector_store
                        /\ memory'.message_count = memory.message_count]_vars

\* The seventh add_to_memory call, during which the summarizer raised: the
\* summary made at the sixth call is kept, the window holds the last five
\* messages and the index holds all seven.
C25_Witness ==
    /\ hist.last = "add_to_memory"
    /\ ~hist.summarizer_ok
    /\ memory.summary = 1
    /\ Len(memory.chat_history) = max_recent_interactions + 2
    /\ Len(memory.recent_context) = max_recent_interactions
    /\ memory.recent_context[1] = get_chat_history(memory)[3]
    /\ Len(memory.vector_store.texts) = max_recent_interactions + 2

\* C29: after sequential add_to_memory calls that appended n messages, the
\* window is exactly the last min(5, n) messages of the log, as
\* get_chat_history returns them, in the same order; the message just recorded
\* is its last entry.
C29_WindowIsLogSuffix ==
    LET log == get_chat_history(memory)
        n == Len(log)
        size == IF n < max_recent_interactions THEN n ELSE max_recent_interactions
    IN  /\ n = steps
        /\ memory.recent_context = SubSeq(log, n - size + 1, n)
        /\ n > 0 => memory.recent_context[size] = log[n]

\* Seven messages of both roles were recorded: the window holds the third to
\* the seventh.
C29_Witness ==
    /\ Len(memory.chat_history) = max_recent_interactions + 2
    /\ memory.recent_context = SubSeq(get_chat_history(memory), 3, 7)
    /\ memory.recent_context[1] # memory.recent_context[5]
    /\ get_chat_history(memory)[1] # get_chat_history(memory)[2]

\* C26: whenever should_retry is evaluated (after a review_subgoal step) on a
\* subgoal that is not skipped, its retries is below max_retries, so the branch
\* "not completed and retries >= max_retries" is never taken; a subgoal never
\* holds max_retries retries without being skipped.
C26_ExhaustedBranchUnreachable ==
    /\ [](\A i \in 1..Len(subgoals) :
            ~subgoals[i].skipped => subgoals[i].retries < max_retries)
    /\ [][(pc = "review_subgoal" /\ hist'.last = "review_subgoal"
             /\ hist'.abort = "none") =>
            LET sg == subgoals'[current_subgoal_index + 1]
            IN  /\ ~sg.skipped => sg.retries < max_retries
                /\ ~(~sg.skipped /\ ~sg.completed /\ sg.retries >= max_retries)
                /\ sg.retries >= max_retries => pc' = "next_subgoal"]_vars

\* should_retry has just sent a subgoal with max_retries - 1 retries, not
\* skipped and rejected again, to retry_subgoal, which will give it up.
C26_Witness ==
    /\ hist.last = "review_subgoal"
    /\ pc = "retry_subgoal"
    /\ ~Current.skipped /\ ~Current.completed
    /\ Current.retries = max_retries - 1
    /\ max_retries >= 1

\* C27: the edge taken after a review does not depend on the retry field of
\* the verdict: it is the one taken for the same subgoal with the opposite
\* retry value, and it leads to retry_subgoal exactly when the subgoal is not
\* skipped, not completed, not covered by the URL policy and has retries left.
C27_RetryFieldIgnored ==
    [][(/\ pc = "review_subgoal" /\ hist'.last = "review_subgoal"
        /\ hist'.abort = "none"
        /\ hist'.review[current_subgoal_index + 1]
                = hist.review[current_subgoal_index + 1] + 1) =>
            LET sg == subgoals'[current_subgoal_index + 1]
            IN  /\ pc' \in {"retry_subgoal", "next_subgoal"}
                /\ pc' = AfterReview([sg EXCEPT !.retry = ~sg.retry])
                /\ pc' = "retry_subgoal" <=>
                        /\ ~sg.skipped /\ ~sg.completed
                        /\ ~(sg.is_url /\ ~MentionsError(sg.feedback))
                        /\ sg.retries < max_retries]_vars

\* A subgoal judged completed = false with retry = false has just been sent
\* to retry_subgoal.
C27_Witness ==
    /\ hist.last = "review_subgoal"
    /\ pc = "retry_subgoal"
    /\ ~Current.completed
    /\ ~Current.retry
    /\ ~Current.skipped
    /\ Current.feedback = "error fetching the page"

\* C28: when process_query ran the workflow and returns a synthesized response
\* that is not problematic, the log holds three messages for the query: the
\* human query and the response content twice, recorded by synthesize and
\* again by process_query; in the direct-answer path of an empty plan the
\* answer is recorded once.
C28_ResponseRecordedTwice ==
    LET log == get_chat_history(memory)
        answer == [role |-> "assistant", content |-> retval.content]
    IN  /\ (/\ pc = "returned" /\ retval.kind = "response"
            /\ hist.synth = 1 /\ ~hist.synth_failed) =>
                /\ Len(log) = 3
                /\ log[1] = [role |-> "human", content |-> "query"]
                /\ log[2] = answer
                /\ log[3] = answer
                /\ final_response.type = "dict"
                /\ ~ContentMentionsError(retval.content)
        /\ (pc = "returned" /\ retval.kind = "direct_answer") =>
                /\ Len(log) = 2
                /\ log[1] = [role |-> "human", content |-> "query"]
                /\ log[2] = answer
                /\ hist.direct = 1 /\ hist.synth = 0

\* process_query returned the answer synthesized from two subgoals, of which
\* one was completed; the log holds the query and the answer twice.
C28_Witness ==
    /\ pc = "returned"
    /\ retval.kind = "response"
    /\ retval.content = "answer"
    /\ hist.synth = 1 /\ ~hist.synth_failed
    /\ Len(subgoals) = 2
    /\ Len(memory.chat_history) = 3
    /\ memory.chat_history[2] = memory.chat_history[3]

\* C30: when synthesize finds a subgoal marked completed whose result is an
\* envelope without a "result" field (and not a plot with a display fragment),
\* it fails on it before the synthesis call is made: final_response becomes the
\* "Error synthesizing response: ..." string, whatever valid results other
\* completed subgoals hold, nothing is recorded in memory, and the workflow
\* ends at END without an exception.
C30_ErrorEnvelopeFailsSynthesis ==
    [][(/\ pc = "synthesize" /\ hist'.last = "synthesize"
        /\ \E i \in 1..Len(subgoals) :
                /\ subgoals[i].completed
                /\ subgoals[i].result # NoResult
                /\ "result" \notin subgoals[i].result.keys
                /\ ~(subgoals[i].result.type = "plot"
                     /\ "display" \in subgoals[i].result.keys)) =>
            /\ pc' = "END"
            /\ hist'.abort = "none"
            /\ hist'.synth_failed
            /\ hist'.synth = 0
            /\ final_response'.type = "str"
            /\ final_response'.content = "Error synthesizing response"
            /\ memory' = memory
            /\ subgoals' = subgoals]_vars

\* synthesize has just failed on the first of two completed subgoals, whose
\* result is the error envelope of execute_tool; the second one holds a text.
C30_Witness ==
    /\ hist.last = "synthesize"
    /\ pc = "END"
    /\ hist.synth_failed
    /\ Len(subgoals) = 2
    /\ subgoals[1].completed /\ subgoals[1].result = ToolFailedEnvelope
    /\ subgoals[2].completed /\ subgoals[2].result = TextEnvelope
    /\ final_response = SynthesisError

====
